---- MODULE Spec2Model ----
(***************************************************************************)
(* Broadcast hub of src/server.ts: the process-wide history buffer         *)
(* `messages`, the connection set `clients`, and the three WebSocket       *)
(* handlers ("connection", "message", "close") registered in               *)
(* wss.on("connection").  Node runs every handler to completion on one     *)
(* thread, so each handler is one atomic action.                           *)
(***************************************************************************)
EXTENDS Integers, Sequences, FiniteSets, TLC

\* ------------------------------------------------------------------ bounds
MaxConns == 2        \* WebSocket objects ever created
MaxPosts == 2        \* "message" payloads pushed under Spec / SpecTransport
MaxEvictPosts == 52  \* "message" payloads pushed under SpecEvict
MaxId == 2           \* distinct values Math.random() can produce
MaxClock == 1        \* Date.now() ranges over 0..MaxClock
MaxSends == 2        \* payloads the bundled client sends
MaxCalls == 2        \* requests to /api/proxy, all of which may overlap

\* ------------------------------------------------------- program constants
HistoryCapacity == 50   \* if (messages.length > 50) messages.shift()

Handles == 1..MaxConns
IdSpace == 1..MaxId
Calls == 1..MaxCalls

\* ------------------------------------------------------------ JS values
\* The value of a property that is not there.
Undefined == "<undefined>"

\* o.k for a plain object o (a TLA+ record whose domain is o's own keys).
Get(o, k) == IF k \in DOMAIN o THEN o[k] ELSE Undefined

\* ToBoolean(v) is false: the falsy values among those that occur here.
Falsy(v) == v \in {Undefined, ""}

\* a || b
JsOr(a, b) == IF Falsy(a) THEN b ELSE a

\* --------------------------------------------------------- inbound frames
\* data.toString() is described by the JSON text it holds: no JSON at all,
\* the literal null, a number, or an object with the given own properties.
NoFrame == [json |-> "none"]

ObjectFrame(o) == [json |-> "object", fields |-> o]

\* The objects a client sends.  The bundled client sends the first shape;
\* the others are what any peer speaking WebSocket may send.
Payloads ==
  { [type |-> "message", user |-> "alice", text |-> "hi", color |-> "#f87171"],
    [type |-> "message", text |-> "yo", id |-> "mine"],
    [type |-> "message", user |-> "", text |-> "", color |-> ""],
    [type |-> "message", user |-> "bob"],
    [type |-> "init", text |-> "hi"],
    [text |-> "hi"] }

Frames ==
  { [json |-> "invalid"], [json |-> "null"], [json |-> "number"] }
    \cup { ObjectFrame(o) : o \in Payloads }

\* The k-th frame of the eviction scenario: text "m0", "m1", ...
NumberedFrame(k) ==
  ObjectFrame([type |-> "message", user |-> "alice",
               text |-> "m" \o ToString(k), color |-> "#fff"])

\* JSON.parse(data.toString()): throws SyntaxError on text that is no JSON.
JSONParse(data) ==
  IF data.json = "invalid" THEN [threw |-> TRUE]
  ELSE [threw |-> FALSE, value |-> data]

\* payload.k: TypeError on null, undefined on a number, the property else.
PropertyThrows(v) == v.json = "null"

Property(v, k) == IF v.json = "object" THEN Get(v.fields, k) ELSE Undefined

\* ------------------------------------------------------- outbound payloads
\* JSON.stringify of a ChatMessage: a property holding undefined is left out.
StringifyMessage(m) ==
  [k \in {"id", "timestamp"}
         \cup {f \in {"user", "text", "color"} : m[f] # Undefined} |-> m[k]]

RECURSIVE StringifyAll(_)
StringifyAll(msgs) ==
  IF msgs = <<>> THEN <<>>
  ELSE <<StringifyMessage(Head(msgs))>> \o StringifyAll(Tail(msgs))

\* Mutant of InitPayload: the snapshot leaves out the newest message.
InitPayloadStale(msgs) ==
  [type |-> "init",
   messages |-> StringifyAll(IF msgs = <<>> THEN <<>>
                             ELSE SubSeq(msgs, 1, Len(msgs) - 1))]

\* JSON.stringify({ type: "init", messages })
InitPayload(msgs) == [type |-> "init", messages |-> StringifyAll(msgs)]

\* JSON.stringify({ type: "message", message: newMessage })
BroadcastData(m) == [type |-> "message", message |-> StringifyMessage(m)]

\* ------------------------------------------------------------------ state
VARIABLES
  messages,    \* const messages: ChatMessage[]
  clients,     \* const clients = new Set<WebSocket>()
  readyState,  \* ws.readyState of every WebSocket object
  outbox,      \* what ws.send() has written to each socket, in order
  appended,    \* history: every message ever pushed, in push order
  now,         \* the value Date.now() returns
  alive,       \* the server process is running
  ev,          \* history: the handler that ran last, and its input
  relay,       \* every call of the /api/proxy handler: its locals and res
  users,       \* the rows of table users of wyvern.db, in order of id
  signups,     \* history: the <<username, password>> of every signup that succeeded
  reply,       \* history: the auth request handled last, and its response
  ui           \* the state of the bundled client's App component

vars ==
  <<messages, clients, readyState, outbox, appended, now, alive, ev, relay,
    users, signups, reply, ui>>

\* A call of the /api/proxy handler that has not been requested yet.
\*   pc       where the handler stands: "idle", "fetching" (await fetch),
\*            "body" (await response.arrayBuffer()), "done"
\*   timer    timeoutId: "none", "armed", "cleared", "fired"
\*   aborted  controller.signal.aborted
\*   expired  history: 10 s have passed since the call was dispatched
\*   fetches  history: the outbound requests the call has issued
\*   upstream the response head fetch resolved with
\*   thrown   the name of the error the catch block received
\*   res      what the handler has called on res, in order
NoUpstream == [none |-> TRUE]

IdleCall ==
  [pc |-> "idle", url |-> Undefined, timer |-> "none", aborted |-> FALSE,
   expired |-> FALSE, fetches |-> 0, upstream |-> NoUpstream,
   thrown |-> "none", res |-> <<>>]

Event(op, c, data) == [op |-> op, conn |-> c, data |-> data]

\* No auth request has been handled yet.
NoReply == [op |-> "none"]

\* null
Null == "<null>"

\* The App component as first rendered: useState("") for chatInput,
\* useState(null) for user, useRef(null) for socketRef.
\*   chatInput  the characters of the input, in order
\*   socket     socketRef.current: null, or the readyState of the WebSocket
\*   color      userColor, drawn when the component is first rendered
\*   sent       history: the payloads handed to socket.send(), in order
\*   submit     history: what the last submit of the chat form did
InitialUi ==
  [chatInput |-> <<>>, user |-> Null, socket |-> Null, color |-> Null,
   sent |-> <<>>, submit |-> "none"]

Init ==
  /\ messages = <<>>
  /\ clients = {}
  /\ readyState = [c \in Handles |-> "CONNECTING"]
  /\ outbox = [c \in Handles |-> <<>>]
  /\ appended = <<>>
  /\ now = 0
  /\ alive = TRUE
  /\ ev = Event("start", 0, NoFrame)
  /\ relay = [k \in Calls |-> IdleCall]
  /\ users = <<>>
  /\ signups = {}
  /\ reply = NoReply
  /\ ui = InitialUi

\* ---------------------------------------------------------------- helpers
\* Mutant of Send: the payload overtakes what was queued before.
SendFirst(box, p) == <<p>> \o box

\* ws.send(p): ws queues p behind what was sent before.
Send(box, p) == Append(box, p)

\* Mutant of Push: the message is put at the head (unshift).
PushFront(buf, m) == <<m>> \o buf

\* messages.push(newMessage)
Push(buf, m) == Append(buf, m)

\* Mutant of Evict: the comparison is >= instead of >.
EvictAtCapacity(buf) == IF Len(buf) >= HistoryCapacity THEN Tail(buf) ELSE buf

\* if (messages.length > 50) messages.shift()
Evict(buf) == IF Len(buf) > HistoryCapacity THEN Tail(buf) ELSE buf

\* Mutant of Recipients: the loop does not test readyState.
RecipientsUnguarded == clients

\* The clients the forEach loop sends to.
Recipients == {d \in clients : readyState[d] = "OPEN"}

\* Mutant of Leave: the close handler empties the set.
LeaveAll(set, h) == {}

\* clients.delete(ws)
Leave(set, h) == set \ {h}

\* Mutant of NewMessage: only an absent user or color is defaulted.
NewMessageAbsentOnly(payload, id, t) ==
  [id |-> id,
   user |-> IF Property(payload, "user") = Undefined THEN "Anonymous"
            ELSE Property(payload, "user"),
   text |-> Property(payload, "text"),
   timestamp |-> t,
   color |-> IF Property(payload, "color") = Undefined THEN "#ffffff"
             ELSE Property(payload, "color")]

\* The object literal of the "message" branch.
NewMessage(payload, id, t) ==
  [id |-> id,
   user |-> JsOr(Property(payload, "user"), "Anonymous"),
   text |-> Property(payload, "text"),
   timestamp |-> t,
   color |-> JsOr(Property(payload, "color"), "#ffffff")]

\* Mutant of Outcome: the handler does not test payload.type.
OutcomeAnyType(data) ==
  LET r == JSONParse(data) IN
  IF r.threw THEN "caught"
  ELSE IF PropertyThrows(r.value) THEN "caught"
  ELSE "post"

\* Which way the try block of the "message" handler goes for `data`:
\* "caught" (JSON.parse or payload.type threw), "post", or "ignored".
Outcome(data) ==
  LET r == JSONParse(data) IN
  IF r.threw THEN "caught"
  ELSE IF PropertyThrows(r.value) THEN "caught"
  ELSE IF Property(r.value, "type") = "message" THEN "post"
  ELSE "ignored"

\* ---------------------------------------------------------------- actions
\* Mutant of Connection: the handler registers ws and sends no init payload.
ConnectionNoInit(c) ==
  /\ alive
  /\ readyState[c] = "CONNECTING"
  /\ \A d \in Handles : d < c => readyState[d] # "CONNECTING"
  /\ readyState' = [readyState EXCEPT ![c] = "OPEN"]
  /\ clients' = clients \cup {c}
  /\ ev' = Event("connection", c, NoFrame)
  /\ UNCHANGED <<messages, outbox, appended, now, alive, relay,
               users, signups, reply, ui>>

\* wss.on("connection", (ws) => { clients.add(ws); ws.send(init) ... }).
\* WebSocket objects are created one after the other.
Connection(c) ==
  /\ alive
  /\ readyState[c] = "CONNECTING"
  /\ \A d \in Handles : d < c => readyState[d] # "CONNECTING"
  /\ readyState' = [readyState EXCEPT ![c] = "OPEN"]
  /\ clients' = clients \cup {c}
  /\ outbox' = [outbox EXCEPT ![c] = Send(@, InitPayload(messages))]
  /\ ev' = Event("connection", c, NoFrame)
  /\ UNCHANGED <<messages, appended, now, alive, relay,
               users, signups, reply, ui>>

\* Mutant of Post: send() throws on the first member of the set that is not
\* OPEN, which ends the forEach loop (members are visited in the order they
\* were added).
PostStopsAtFailure(m) ==
  /\ messages' = Evict(Push(messages, m))
  /\ appended' = Append(appended, m)
  /\ outbox' = [d \in Handles |->
                  IF d \in clients
                     /\ \A f \in clients : f <= d => readyState[f] = "OPEN"
                  THEN Send(outbox[d], BroadcastData(m))
                  ELSE outbox[d]]
  /\ UNCHANGED <<clients, readyState>>

\* Mutant of Post: the message is broadcast to every client but its sender.
PostNotToSender(m) ==
  /\ messages' = Evict(Push(messages, m))
  /\ appended' = Append(appended, m)
  /\ outbox' = [d \in Handles |->
                  IF d \in Recipients \ {ev'.conn}
                  THEN Send(outbox[d], BroadcastData(m))
                  ELSE outbox[d]]
  /\ UNCHANGED <<clients, readyState>>

\* The "message" branch after newMessage is built: push, evict, broadcast.
Post(m) ==
  /\ messages' = Evict(Push(messages, m))
  /\ appended' = Append(appended, m)
  /\ outbox' = [d \in Handles |->
                  IF d \in Recipients
                  THEN Send(outbox[d], BroadcastData(m))
                  ELSE outbox[d]]
  /\ UNCHANGED <<clients, readyState>>

\* Mutant of Catch: the catch block also closes the offending socket.
CatchAndClose(c) ==
  /\ readyState' = [readyState EXCEPT ![c] = "CLOSING"]
  /\ UNCHANGED <<messages, appended, outbox, clients>>

\* catch (e) { console.error("WS message error:", e); }
Catch(c) == UNCHANGED <<messages, appended, outbox, clients, readyState>>

\* ws.on("message", (data) => { try { ... } catch (e) { ... } }).
\* `id` is what Math.random() yields; `limit` caps the pushes of a run.
Message(c, data, id, limit) ==
  /\ alive
  /\ readyState[c] = "OPEN"
  /\ ev' = Event("message", c, data)
  /\ CASE Outcome(data) = "post" ->
            /\ Len(appended) < limit
            /\ Post(NewMessage(JSONParse(data).value, id, now))
       [] Outcome(data) = "caught" -> Catch(c)
       [] OTHER -> UNCHANGED <<messages, appended, outbox, clients, readyState>>
  /\ UNCHANGED <<now, alive, relay,
               users, signups, reply, ui>>

\* The peer's close frame arrives, or the socket fails while reading or
\* writing: ws sets readyState to CLOSING and emits "close" later.
Closing(c, cause) ==
  /\ alive
  /\ readyState[c] = "OPEN"
  /\ readyState' = [readyState EXCEPT ![c] = "CLOSING"]
  /\ ev' = Event(cause, c, NoFrame)
  /\ UNCHANGED <<messages, clients, outbox, appended, now, alive, relay,
               users, signups, reply, ui>>

\* Mutant of Close: the handler does not delete the connection.
CloseKeepsMember(c) ==
  /\ alive
  /\ readyState[c] \in {"OPEN", "CLOSING"}
  /\ readyState' = [readyState EXCEPT ![c] = "CLOSED"]
  /\ outbox' = [outbox EXCEPT ![c] = <<>>]
  /\ ev' = Event("close", c, NoFrame)
  /\ UNCHANGED <<messages, clients, appended, now, alive, relay,
               users, signups, reply, ui>>

\* ws.on("close", () => { clients.delete(ws) }): the socket is gone, and
\* with it the stream written to it.
Close(c) ==
  /\ alive
  /\ readyState[c] \in {"OPEN", "CLOSING"}
  /\ readyState' = [readyState EXCEPT ![c] = "CLOSED"]
  /\ clients' = Leave(clients, c)
  /\ outbox' = [outbox EXCEPT ![c] = <<>>]
  /\ ev' = Event("close", c, NoFrame)
  /\ UNCHANGED <<messages, appended, now, alive, relay,
               users, signups, reply, ui>>

\* The wall clock advances.
Tick ==
  /\ alive
  /\ now < MaxClock
  /\ now' = now + 1
  /\ ev' = Event("tick", 0, NoFrame)
  /\ UNCHANGED <<messages, clients, readyState, outbox, appended, alive, relay,
               users, signups, reply, ui>>

\* The wall clock is set back: Date.now() reads the system clock, which an
\* NTP step or an operator can move to an earlier time.
ClockSetBack ==
  /\ alive
  /\ now > 0
  /\ now' = now - 1
  /\ ev' = Event("clock set back", 0, NoFrame)
  /\ UNCHANGED <<messages, clients, readyState, outbox, appended, alive, relay,
               users, signups, reply, ui>>

CloseCauses == {"peer close", "read error", "write error"}

\* The hub under every frame of Frames, with Math.random() and Date.now()
\* held to one value each (message ids and timestamps vary under SpecData).
Next ==
  \/ \E c \in Handles : Connection(c)
  \/ \E c \in Handles, data \in Frames : Message(c, data, 1, MaxPosts)
  \/ \E c \in Handles, cause \in CloseCauses : Closing(c, cause)
  \/ \E c \in Handles : Close(c)

Spec == Init /\ [][Next]_vars

\* The eviction scenario: posts "m0", "m1", ... past the capacity of the
\* history buffer, with joins, leaves and unparseable frames in between.
NextEvict ==
  \/ \E c \in Handles : Connection(c)
  \/ \E c \in Handles :
       Message(c, NumberedFrame(Len(appended)), 1, MaxEvictPosts)
  \/ \E c \in Handles : Message(c, [json |-> "invalid"], 1, MaxEvictPosts)
  \/ \E c \in Handles : Close(c)

SpecEvict == Init /\ [][NextEvict]_vars

\* The listeners the "connection" handler registers on ws.
Listeners == {"message", "close"}

\* The receiver of ws rejects a frame (a reserved bit set, an unmasked
\* frame, text that is not UTF-8, a payload over the limit) and ws emits
\* "error".  An EventEmitter with no "error" listener throws the error, and
\* the exception, uncaught, ends the process and every socket with it.
ProtocolError(c) ==
  /\ alive
  /\ readyState[c] = "OPEN"
  /\ ev' = Event("protocol error", c, NoFrame)
  /\ IF "error" \in Listeners
     THEN /\ readyState' = [readyState EXCEPT ![c] = "CLOSING"]
          /\ UNCHANGED alive
     ELSE /\ readyState' = [d \in Handles |->
                              IF readyState[d] = "CONNECTING"
                              THEN "CONNECTING" ELSE "CLOSED"]
          /\ alive' = FALSE
  /\ UNCHANGED <<messages, clients, outbox, appended, now, relay,
               users, signups, reply, ui>>

\* The hub with the transport failing in every way ws reports.
NextTransport ==
  \/ Next
  \/ \E c \in Handles : ProtocolError(c)

SpecTransport == Init /\ [][NextTransport]_vars

\* Message ids and timestamps: Math.random() ranges over IdSpace and the
\* system clock moves between handlers.
NextData ==
  \/ \E c \in Handles : Connection(c)
  \/ \E c \in Handles, o \in Payloads, id \in IdSpace :
       Message(c, ObjectFrame(o), id, MaxPosts)
  \/ \E c \in Handles : Close(c)
  \/ Tick
  \/ ClockSetBack

SpecData == Init /\ [][NextData]_vars

\* The "message" payloads of one client: those above, and one with a text
\* and an empty color.
PostPayloads ==
  {o \in Payloads : Outcome(ObjectFrame(o)) = "post"}
    \cup { [type |-> "message", user |-> "carol", text |-> "hey", color |-> ""] }

\* The clients post every shape of payload.
NextPost ==
  \/ \E c \in Handles : Connection(c)
  \/ \E c \in Handles, o \in PostPayloads :
       Message(c, ObjectFrame(o), 1, MaxPosts)
  \/ \E c \in Handles : Close(c)

SpecPost == Init /\ [][NextPost]_vars

\* ------------------------------------------------------------------ relay
\* app.get("/api/proxy", async (req, res) => { ... }): an async function, so
\* each stretch between two awaits is one atomic action, and calls overlap
\* at the awaits.

\* req.query.url: absent, empty, or a URL.
Urls == {Undefined, "", "https://a.example/"}

\* The response heads an upstream may answer with.
Upstreams ==
  { [contentType |-> "text/html", xFrameOptions |-> "DENY",
     contentSecurityPolicy |-> "frame-ancestors 'none'"],
    [contentType |-> "image/png"],
    [xFrameOptions |-> "SAMEORIGIN"] }

\* What the handler calls on res.
SetHeader(name, value) == [op |-> "setHeader", name |-> name, value |-> value]

Status(code) == [op |-> "status", code |-> code]

Json(error) == [op |-> "json", error |-> error]

SendBody == [op |-> "send"]

\* Mutant of UrlMissing: only an absent url is refused.
UrlMissingStrict(url) == url = Undefined

\* if (!targetUrl)
UrlMissing(url) == Falsy(url)

\* Mutant of IssueFetch: a URL fetched by an earlier call is not fetched
\* again.
IssueFetchCached(k, url) ==
  IF \E j \in Calls : j # k /\ relay[j].url = url /\ relay[j].fetches > 0
  THEN relay[k].fetches
  ELSE relay[k].fetches + 1

\* fetch(targetUrl, { signal, headers }): the outbound requests of call k
\* after this one.
IssueFetch(k, url) == relay[k].fetches + 1

\* Mutant of ErrorMessage: the name tested is that of AbortSignal.timeout().
ErrorMessageTimeoutError(name) ==
  IF name = "TimeoutError" THEN "Request timed out" ELSE "Failed to fetch URL"

\* error.name === 'AbortError' ? 'Request timed out' : 'Failed to fetch URL'
ErrorMessage(name) ==
  IF name = "AbortError" THEN "Request timed out" ELSE "Failed to fetch URL"

\* Mutant of EmbedHeaders: a framing header of the upstream is passed on.
EmbedHeadersKeepUpstream(up) ==
  <<SetHeader("Access-Control-Allow-Origin", "*"),
    SetHeader("X-Frame-Options",
              IF "xFrameOptions" \in DOMAIN up THEN up.xFrameOptions
              ELSE "ALLOWALL"),
    SetHeader("Content-Security-Policy", "frame-ancestors *")>>

\* The three res.setHeader calls under "Strip security headers".
EmbedHeaders(up) ==
  <<SetHeader("Access-Control-Allow-Origin", "*"),
    SetHeader("X-Frame-Options", "ALLOWALL"),
    SetHeader("Content-Security-Policy", "frame-ancestors *")>>

\* const contentType = response.headers.get("content-type");
\* if (contentType) res.setHeader("Content-Type", contentType)
CopyContentType(up) ==
  IF Falsy(Get(up, "contentType")) THEN <<>>
  ELSE <<SetHeader("Content-Type", up.contentType)>>

\* The catch block: res.status(500).json({ error: message, ... }).
CatchRelay(call, name) ==
  [call EXCEPT !.pc = "done", !.thrown = name,
               !.res = @ \o <<Status(500), Json(ErrorMessage(name))>>]

\* The request arrives: the handler runs to `await fetch(...)`, or answers
\* 400 when there is no url.
Request(k, url) ==
  /\ alive
  /\ relay[k].pc = "idle"
  /\ \A j \in Calls : j < k => relay[j].pc # "idle"
  /\ relay' = [relay EXCEPT ![k] =
       IF UrlMissing(url)
       THEN [@ EXCEPT !.pc = "done", !.url = url,
                      !.res = <<Status(400), Json("URL is required")>>]
       ELSE [@ EXCEPT !.pc = "fetching", !.url = url, !.timer = "armed",
                      !.fetches = IssueFetch(k, url)]]
  /\ UNCHANGED <<messages, clients, readyState, outbox, appended, now, alive, ev,
               users, signups, reply, ui>>

\* Mutant of Deadline: one AbortController is shared by all calls, so the
\* timer of call k aborts every call in flight.
DeadlineSharedController(k) ==
  /\ alive
  /\ relay[k].pc # "idle"
  /\ relay[k].fetches > 0
  /\ ~relay[k].expired
  /\ relay' = [j \in Calls |->
       IF relay[k].timer # "armed"
       THEN (IF j = k THEN [relay[j] EXCEPT !.expired = TRUE] ELSE relay[j])
       ELSE IF j = k
            THEN [relay[j] EXCEPT !.expired = TRUE, !.timer = "fired",
                                  !.aborted = TRUE]
            ELSE IF relay[j].pc \in {"fetching", "body"}
                 THEN [relay[j] EXCEPT !.aborted = TRUE]
                 ELSE relay[j]]
  /\ UNCHANGED <<messages, clients, readyState, outbox, appended, now, alive, ev,
               users, signups, reply, ui>>

\* 10 s have passed since call k was dispatched.  A timer still armed runs
\* its callback, controller.abort(); a cleared one does nothing.
Deadline(k) ==
  /\ alive
  /\ relay[k].pc # "idle"
  /\ relay[k].fetches > 0
  /\ ~relay[k].expired
  /\ relay' = [relay EXCEPT ![k] =
       IF @.timer = "armed"
       THEN [@ EXCEPT !.expired = TRUE, !.timer = "fired", !.aborted = TRUE]
       ELSE [@ EXCEPT !.expired = TRUE]]
  /\ UNCHANGED <<messages, clients, readyState, outbox, appended, now, alive, ev,
               users, signups, reply, ui>>

\* fetch resolves with the response head: clearTimeout, the Content-Type
\* copy and the three header overrides, up to `await response.arrayBuffer()`.
FetchResolves(k, up) ==
  /\ relay[k].pc = "fetching"
  /\ ~relay[k].aborted
  /\ relay' = [relay EXCEPT ![k] =
       [@ EXCEPT !.pc = "body", !.upstream = up, !.timer = "cleared",
                 !.res = @ \o CopyContentType(up) \o EmbedHeaders(up)]]
  /\ UNCHANGED <<messages, clients, readyState, outbox, appended, now, alive, ev,
               users, signups, reply, ui>>

\* fetch rejects: with AbortError once the signal is aborted, with
\* TypeError when the upstream cannot be reached.  The catch block answers.
FetchRejects(k) ==
  /\ relay[k].pc = "fetching"
  /\ relay' = [relay EXCEPT ![k] =
       CatchRelay(@, IF @.aborted THEN "AbortError" ELSE "TypeError")]
  /\ UNCHANGED <<messages, clients, readyState, outbox, appended, now, alive, ev,
               users, signups, reply, ui>>

\* response.arrayBuffer() resolves: res.send(Buffer.from(body)).
BodyResolves(k) ==
  /\ relay[k].pc = "body"
  /\ ~relay[k].aborted
  /\ relay' = [relay EXCEPT ![k] =
       [@ EXCEPT !.pc = "done", !.res = @ \o <<SendBody>>]]
  /\ UNCHANGED <<messages, clients, readyState, outbox, appended, now, alive, ev,
               users, signups, reply, ui>>

\* response.arrayBuffer() rejects: the upstream broke off while sending the
\* body (TypeError), or the signal was aborted (AbortError).
BodyRejects(k) ==
  /\ relay[k].pc = "body"
  /\ relay' = [relay EXCEPT ![k] =
       CatchRelay(@, IF @.aborted THEN "AbortError" ELSE "TypeError")]
  /\ UNCHANGED <<messages, clients, readyState, outbox, appended, now, alive, ev,
               users, signups, reply, ui>>

NextRelay ==
  \/ \E k \in Calls, url \in Urls : Request(k, url)
  \/ \E k \in Calls : Deadline(k)
  \/ \E k \in Calls, up \in Upstreams : FetchResolves(k, up)
  \/ \E k \in Calls : FetchRejects(k)
  \/ \E k \in Calls : BodyResolves(k)
  \/ \E k \in Calls : BodyRejects(k)

SpecRelay == Init /\ [][NextRelay]_vars

\* ------------------------------------------------------------------- auth
\* req.body.username and req.body.password: absent, empty, or a string.
Usernames == {Undefined, "", "alice", "bob"}

Passwords == {Undefined, "", "p", "q"}

\* err.code of the error better-sqlite3 throws when the UNIQUE constraint on
\* username fails: the primary result code or the extended one, as the
\* library reports it.
ConstraintCodes == {"SQLITE_CONSTRAINT", "SQLITE_CONSTRAINT_UNIQUE"}

\* username TEXT UNIQUE: a row with this username exists.
UsernameTaken(table, username) ==
  \E i \in 1..Len(table) : table[i].username = username

\* INSERT INTO users (username, password) VALUES (?, ?): the row gets the
\* next id, its place in the table.
Insert(table, username, password) ==
  Append(table, [username |-> username, password |-> password])

\* Mutant of Select: the password is not compared.
SelectByUsername(table, username, password) ==
  {i \in 1..Len(table) : table[i].username = username}

\* SELECT * FROM users WHERE username = ? AND password = ?
Select(table, username, password) ==
  {i \in 1..Len(table) :
     table[i].username = username /\ table[i].password = password}

Reply(op, username, password, status, body) ==
  [op |-> op, username |-> username, password |-> password,
   status |-> status, body |-> body]

\* app.post("/api/auth/signup"); `code` is err.code should the insert throw.
Signup(username, password, code) ==
  /\ alive
  /\ IF Falsy(username) \/ Falsy(password)
     THEN /\ reply' = Reply("signup", username, password, 400,
                            [error |-> "Username and password required"])
          /\ UNCHANGED <<users, signups>>
     ELSE IF UsernameTaken(users, username)
     THEN /\ reply' =
               IF code = "SQLITE_CONSTRAINT"
               THEN Reply("signup", username, password, 400,
                          [error |-> "Username already exists"])
               ELSE Reply("signup", username, password, 500,
                          [error |-> "Internal server error"])
          /\ UNCHANGED <<users, signups>>
     ELSE /\ users' = Insert(users, username, password)
          /\ signups' = signups \cup {<<username, password>>}
          /\ reply' = Reply("signup", username, password, 200,
                            [success |-> TRUE])
  /\ UNCHANGED <<messages, clients, readyState, outbox, appended, now, alive,
                 ev, relay, ui>>

\* app.post("/api/auth/login")
Login(username, password) ==
  /\ alive
  /\ reply' =
       IF Falsy(username) \/ Falsy(password)
       THEN Reply("login", username, password, 400,
                  [error |-> "Username and password required"])
       ELSE IF Select(users, username, password) # {}
       THEN Reply("login", username, password, 200,
                  [success |-> TRUE, username |-> username])
       ELSE Reply("login", username, password, 401,
                  [error |-> "Invalid credentials"])
  /\ UNCHANGED <<messages, clients, readyState, outbox, appended, now, alive,
                 ev, relay, users, signups, ui>>

NextAuth ==
  \/ \E u \in Usernames, p \in Passwords, code \in ConstraintCodes :
       Signup(u, p, code)
  \/ \E u \in Usernames, p \in Passwords : Login(u, p)

SpecAuth == Init /\ [][NextAuth]_vars

\* ----------------------------------------------------------------- client
\* socket.onmessage of the bundled client: an init payload replaces the
\* message list, a message payload is appended to it, anything else is
\* ignored.
OnMessage(list, data) ==
  IF data.type = "init" THEN data.messages
  ELSE IF data.type = "message" THEN Append(list, data.message)
  ELSE list

\* The client's message list once it has handled, in order, the payloads
\* written to its socket.
RECURSIVE ClientMessages(_)
ClientMessages(box) ==
  IF box = <<>> THEN <<>>
  ELSE OnMessage(ClientMessages(SubSeq(box, 1, Len(box) - 1)), box[Len(box)])

\* USER_COLORS (two of its eight entries).
UserColors == {"#f87171", "#fb923c"}

\* What the user may have typed into the chat input.
Inputs == { <<>>, <<" ">>, <<" ", "h", "i">> }

\* What the user types into the auth form: authUsername, authPassword.
FormUsernames == {"", "alice", "bob"}

FormPasswords == {"p"}

\* White space as String.prototype.trim() sees it.
WhiteSpace == {" ", "\t", "\n"}

\* chatInput.trim()
RECURSIVE TrimStart(_)
TrimStart(str) ==
  IF str # <<>> /\ Head(str) \in WhiteSpace THEN TrimStart(Tail(str)) ELSE str

RECURSIVE TrimEnd(_)
TrimEnd(str) ==
  IF str # <<>> /\ str[Len(str)] \in WhiteSpace
  THEN TrimEnd(SubSeq(str, 1, Len(str) - 1)) ELSE str

Trim(str) == TrimEnd(TrimStart(str))

\* Mutant of Blank: the input is tested without trim().
BlankUntrimmed(str) == str = <<>>

\* !chatInput.trim()
Blank(str) == Trim(str) = <<>>

\* The object sendChatMessage stringifies.
ChatPayload ==
  [type |-> "message", user |-> ui.user, text |-> ui.chatInput,
   color |-> ui.color]

\* The component is mounted: userColor is drawn and the effect creates the
\* WebSocket and stores it in socketRef.
Mount ==
  /\ ui.socket = Null
  /\ \E color \in UserColors :
       ui' = [ui EXCEPT !.socket = "CONNECTING", !.color = color]
  /\ UNCHANGED <<messages, clients, readyState, outbox, appended, now, alive,
                 ev, relay, users, signups, reply>>

\* The client's socket opens, or closes.
SocketOpens ==
  /\ ui.socket = "CONNECTING"
  /\ ui' = [ui EXCEPT !.socket = "OPEN"]
  /\ UNCHANGED <<messages, clients, readyState, outbox, appended, now, alive,
                 ev, relay, users, signups, reply>>

SocketCloses ==
  /\ ui.socket \in {"CONNECTING", "OPEN"}
  /\ ui' = [ui EXCEPT !.socket = "CLOSED"]
  /\ UNCHANGED <<messages, clients, readyState, outbox, appended, now, alive,
                 ev, relay, users, signups, reply>>

\* onChange={(e) => setChatInput(e.target.value)}
Type(input) ==
  /\ ui.chatInput # input
  /\ ui' = [ui EXCEPT !.chatInput = input]
  /\ UNCHANGED <<messages, clients, readyState, outbox, appended, now, alive,
                 ev, relay, users, signups, reply>>

\* handleAuth after `await res.json()` of a login: setUser on res.ok.
LoginResponse ==
  /\ reply.op = "login"
  /\ reply.status = 200
  /\ ui.user # reply.body.username
  /\ ui' = [ui EXCEPT !.user = reply.body.username]
  /\ UNCHANGED <<messages, clients, readyState, outbox, appended, now, alive,
                 ev, relay, users, signups, reply>>

\* onClick={() => setUser(null)}
Logout ==
  /\ ui.user # Null
  /\ ui' = [ui EXCEPT !.user = Null]
  /\ UNCHANGED <<messages, clients, readyState, outbox, appended, now, alive,
                 ev, relay, users, signups, reply>>

\* sendChatMessage, on submit of the chat form.  WebSocket.send() throws
\* InvalidStateError while the socket is connecting, and takes the data in
\* every other state.
SendChatMessage ==
  /\ IF Blank(ui.chatInput) \/ ui.socket = Null \/ ui.user = Null
     THEN ui' = [ui EXCEPT !.submit = "returned"]
     ELSE IF ui.socket = "CONNECTING"
     THEN ui' = [ui EXCEPT !.submit = "threw"]
     ELSE /\ Len(ui.sent) < MaxSends
          /\ ui' = [ui EXCEPT !.sent = Append(@, ChatPayload),
                              !.chatInput = <<>>, !.submit = "sent"]
  /\ UNCHANGED <<messages, clients, readyState, outbox, appended, now, alive,
                 ev, relay, users, signups, reply>>

\* The bundled client and the auth endpoints its form calls.
NextClient ==
  \/ Mount
  \/ SocketOpens
  \/ SocketCloses
  \/ \E input \in Inputs : Type(input)
  \/ \E u \in FormUsernames, p \in FormPasswords, code \in ConstraintCodes :
       Signup(u, p, code)
  \/ \E u \in FormUsernames, p \in FormPasswords : Login(u, p)
  \/ LoginResponse
  \/ Logout
  \/ SendChatMessage

SpecClient == Init /\ [][NextClient]_vars

\* ================================================================ claims
Last(seq) == seq[Len(seq)]

\* The last n elements of seq (all of it when it is shorter).
LastN(seq, n) ==
  IF Len(seq) <= n THEN seq ELSE SubSeq(seq, Len(seq) - n + 1, Len(seq))

\* The init payloads written to c, and the messages broadcast to c, in the
\* order they were written.
IsInit(p) == p.type = "init"

IsBroadcast(p) == p.type = "message"

RECURSIVE MessagesOf(_)
MessagesOf(ps) ==
  IF ps = <<>> THEN <<>> ELSE <<Head(ps).message>> \o MessagesOf(Tail(ps))

Broadcasts(c) == MessagesOf(SelectSeq(outbox[c], IsBroadcast))

\* data is a JSON object whose type is "message"; the text it carries.
IsMessagePayload(data) ==
  /\ data.json = "object"
  /\ "type" \in DOMAIN data.fields
  /\ data.fields.type = "message"

TextOf(data) == IF "text" \in DOMAIN data.fields THEN data.fields.text ELSE ""

\* seg is a run of consecutive elements of seq.
IsSegment(seg, seq) ==
  \E k \in 0..(Len(seq) - Len(seg)) : seg = SubSeq(seq, k + 1, k + Len(seg))

\* C1: in every state between handlers the history buffer holds at most 50
\* messages, and so does every init payload sent; the buffer is always the
\* most recent 50 (or fewer) of the messages pushed, in push order.
C1_HistoryBounded ==
  /\ Len(messages) <= 50
  /\ messages = LastN(appended, 50)
  /\ \A c \in Handles : \A i \in 1..Len(outbox[c]) :
        IsInit(outbox[c][i]) => Len(outbox[c][i].messages) <= 50

\* C1 witness: 52 posts were pushed, m0 and m1 are gone, and a connection
\* that joined after the first eviction holds a snapshot of 50.
C1_Witness ==
  /\ Len(appended) = 52
  /\ Len(messages) = 50
  /\ Head(messages).text = "m2"
  /\ Last(messages).text = "m51"
  /\ \E c \in clients :
        /\ Len(outbox[c][1].messages) = 50
        /\ Head(outbox[c][1].messages).text = "m1"

\* C2: the connection handler writes to the joining socket one init payload
\* holding the history buffer as it is at that moment, in order, and writes
\* to no other socket.
C2_JoinSnapshot ==
  [][ev'.op = "connection" =>
       /\ outbox'[ev'.conn] =
            <<[type |-> "init", messages |-> StringifyAll(messages)]>>
       /\ StringifyAll(messages) = StringifyAll(LastN(appended, 50))
       /\ \A d \in Handles \ {ev'.conn} : outbox'[d] = outbox[d]
       /\ messages' = messages]_vars

\* C2 witness: a connection joins a hub that holds two messages while
\* another connection is open.
C2_Witness ==
  /\ ev.op = "connection"
  /\ Len(messages) = 2
  /\ Len(outbox[ev.conn][1].messages) = 2
  /\ \E d \in clients \ {ev.conn} : readyState[d] = "OPEN"

\* C3: a socket that is open or closing was sent exactly one init payload,
\* as its first payload, and everything after it is a broadcast; a socket
\* not yet connected was sent nothing.
C3_InitFirstOnce ==
  \A c \in Handles :
    /\ readyState[c] \in {"OPEN", "CLOSING"} =>
         /\ Len(outbox[c]) >= 1
         /\ IsInit(outbox[c][1])
         /\ \A i \in 2..Len(outbox[c]) : IsBroadcast(outbox[c][i])
    /\ readyState[c] = "CONNECTING" => outbox[c] = <<>>

\* C3 witness: one connection received its init and two broadcasts, another
\* joined between the two posts.
C3_Witness ==
  \E c, d \in Handles :
    /\ c # d
    /\ Len(outbox[c]) = 3
    /\ Len(outbox[d]) = 2
    /\ Len(outbox[d][1].messages) = 1

\* C4: a handler that pushes a message puts it at the tail of the history
\* buffer and writes it once to every socket that is in the set and OPEN,
\* the sender's included, and to no other; a payload with text is pushed;
\* nothing is ever written to a socket after its removal.
C4_BroadcastOnce ==
  [][/\ (ev'.op = "message" /\ IsMessagePayload(ev'.data)
            /\ TextOf(ev'.data) # "") =>
          /\ Len(appended') = Len(appended) + 1
          /\ Last(appended').text = TextOf(ev'.data)
     /\ Len(appended') > Len(appended) =>
          /\ ev'.op = "message"
          /\ Last(messages') = Last(appended')
          /\ ev'.conn \in clients /\ readyState[ev'.conn] = "OPEN"
          /\ \A d \in Handles :
                outbox'[d] =
                  IF d \in clients /\ readyState[d] = "OPEN"
                  THEN Append(outbox[d],
                              [type |-> "message",
                               message |-> StringifyMessage(Last(appended'))])
                  ELSE outbox[d]
     /\ \A d \in Handles :
          readyState[d] = "CLOSED" =>
            /\ readyState'[d] = "CLOSED"
            /\ d \notin clients'
            /\ outbox'[d] = <<>>]_vars

\* C4 witness: a post was broadcast while one member of the set was closing
\* and one connection had left.
C4_Witness ==
  /\ ev.op = "message"
  /\ Len(appended) = 2
  /\ readyState[ev.conn] = "OPEN"
  /\ Len(outbox[ev.conn]) = 3
  /\ \E d \in Handles \ {ev.conn} : readyState[d] \in {"CLOSING", "CLOSED"}

\* C5: the messages broadcast to a connection are, in the order it was sent
\* them, a run of consecutive messages of the push order.
C5_BroadcastOrder ==
  \A c \in Handles : IsSegment(Broadcasts(c), StringifyAll(appended))

\* C5 witness: a connection was sent two different messages, the second
\* posted by another connection.
C5_Witness ==
  \E c \in Handles :
    /\ Len(Broadcasts(c)) = 2
    /\ Broadcasts(c)[1] # Broadcasts(c)[2]
    /\ ev.op = "message"
    /\ ev.conn # c

\* C6: a "message" payload whose text is absent or empty is rejected: the
\* history buffer and the connection set stay as they are, nothing is
\* written to any socket, and the sender stays open.
C6_EmptyTextRejected ==
  [][(ev'.op = "message" /\ IsMessagePayload(ev'.data)
        /\ TextOf(ev'.data) = "") =>
       /\ messages' = messages
       /\ clients' = clients
       /\ outbox' = outbox
       /\ readyState'[ev'.conn] = "OPEN"]_vars

\* C7: a frame that is no JSON changes nothing: the history buffer, every
\* outbox, the connection set and every readyState stay as they are, and
\* the sender is still OPEN and in the set, so its next frame is handled
\* and the next broadcast reaches it.
C7_UnparseableDropped ==
  [][(ev'.op = "message" /\ ev'.data.json = "invalid") =>
       /\ messages' = messages
       /\ appended' = appended
       /\ outbox' = outbox
       /\ clients' = clients
       /\ readyState' = readyState
       /\ alive'
       /\ ev'.conn \in clients'
       /\ readyState'[ev'.conn] = "OPEN"]_vars

\* C7 witness: a connection that holds a broadcast sent a frame that is no
\* JSON, while another connection is open.
C7_Witness ==
  /\ ev.op = "message"
  /\ ev.data.json = "invalid"
  /\ Len(outbox[ev.conn]) = 2
  /\ messages # <<>>
  /\ \E d \in clients \ {ev.conn} : readyState[d] = "OPEN"

\* C8: a frame that is JSON and whose type is not "message" (an object of
\* another type or of none, a number, null) changes nothing: the history
\* buffer, the connection set, every readyState and every outbox stay as
\* they are.
C8_OtherTypeIgnored ==
  [][(ev'.op = "message" /\ ev'.data.json # "invalid"
        /\ ~IsMessagePayload(ev'.data)) =>
       /\ messages' = messages
       /\ appended' = appended
       /\ clients' = clients
       /\ readyState' = readyState
       /\ outbox' = outbox]_vars

\* C8 witness: an object of type "init" arrived at a hub that holds a
\* message and two open connections.
C8_Witness ==
  /\ ev.op = "message"
  /\ ev.data.json = "object"
  /\ "type" \in DOMAIN ev.data.fields
  /\ ev.data.fields.type = "init"
  /\ messages # <<>>
  /\ \E d \in clients \ {ev.conn} : readyState[d] = "OPEN"

\* C9: the close handler takes its own handle out of the set and nothing
\* else: every other handle keeps its membership, its readyState and its
\* outbox, and the history buffer is untouched; removing a handle from the
\* set a second time gives the set the first removal gave.
C9_LeaveIdempotentLocal ==
  [][/\ ev'.op = "close" =>
          /\ clients' = clients \ {ev'.conn}
          /\ messages' = messages
          /\ \A d \in Handles \ {ev'.conn} :
                /\ readyState'[d] = readyState[d]
                /\ outbox'[d] = outbox[d]
     /\ \A h \in Handles :
          /\ Leave(Leave(clients, h), h) = Leave(clients, h)
          /\ h \notin Leave(clients, h)
          /\ \A d \in Handles \ {h} :
                (d \in Leave(clients, h)) = (d \in clients)]_vars

\* C9 witness: a connection closed between two posts while another, which
\* received the first post, stays open in the set.
C9_Witness ==
  /\ ev.op = "close"
  /\ Len(appended) = 1
  /\ \E d \in clients :
        /\ d # ev.conn
        /\ readyState[d] = "OPEN"
        /\ Len(outbox[d]) = 2

\* C10: however a connection comes to be CLOSED (the peer closed, a read
\* failed, a write failed) its handle is out of the set in that very step,
\* no other connection's readyState changes, the process keeps running,
\* and a CLOSED handle stays CLOSED and out of the set.
C10_ClosedUniformly ==
  [][\A c \in Handles :
       /\ (readyState[c] # "CLOSED" /\ readyState'[c] = "CLOSED") =>
            /\ c \notin clients'
            /\ alive'
            /\ \A d \in Handles \ {c} : readyState'[d] = readyState[d]
       /\ readyState[c] = "CLOSED" =>
            /\ readyState'[c] = "CLOSED"
            /\ c \notin clients']_vars

\* C11: a member of the set whose socket failed does not keep a broadcast
\* from the others: the pushed message is in the history buffer and every
\* member that is OPEN is sent it; and the step in which a write fails on
\* one socket leaves the history buffer, the set, the process and every
\* other socket as they were.
C11_SendFailureLocal ==
  [][/\ (Len(appended') > Len(appended)
            /\ \E f \in clients : readyState[f] # "OPEN") =>
          /\ Last(messages') = Last(appended')
          /\ \A d \in clients :
                readyState[d] = "OPEN" =>
                  /\ Len(outbox'[d]) = Len(outbox[d]) + 1
                  /\ Last(outbox'[d]).type = "message"
                  /\ Last(outbox'[d]).message =
                       StringifyMessage(Last(appended'))
     /\ ev'.op = "write error" =>
          /\ messages' = messages
          /\ clients' = clients
          /\ alive'
          /\ \A d \in Handles \ {ev'.conn} :
                /\ readyState'[d] = readyState[d]
                /\ outbox'[d] = outbox[d]]_vars

\* C11 witness: the first connection was sent one message, then failed and
\* is closing, still in the set; a second message was posted and the other
\* connection holds both.
C11_Witness ==
  /\ ev.op = "message"
  /\ Len(appended) = 2
  /\ readyState[1] = "CLOSING"
  /\ 1 \in clients
  /\ Len(outbox[1]) = 2
  /\ readyState[2] = "OPEN"
  /\ Len(outbox[2]) = 3

\* C12: every relay call with a url is bounded by the deadline counted from
\* dispatch: once the deadline has expired, a call still waiting on the
\* upstream (for the response head or for the body) has had its outbound
\* call aborted.
C12_DeadlineBoundsCall ==
  \A k \in Calls :
    (relay[k].expired /\ relay[k].pc \in {"fetching", "body"}) =>
      relay[k].aborted

\* What call k has written on res.
Written(call, op) == {i \in 1..Len(call.res) : call.res[i].op = op}

\* C13: a relay call that fails answers with an error and never with a
\* body: status 500 with "Request timed out" exactly when the deadline
\* timer had fired and aborted the outbound call, and with "Failed to fetch
\* URL" for every other failure.
C13_FailureClassified ==
  [][\A k \in Calls :
       (relay[k].pc \in {"fetching", "body"} /\ relay'[k].thrown # "none") =>
         /\ relay'[k].pc = "done"
         /\ Written(relay'[k], "send") = {}
         /\ Written(relay'[k], "status") = {Len(relay'[k].res) - 1}
         /\ relay'[k].res[Len(relay'[k].res) - 1].code = 500
         /\ Last(relay'[k].res).op = "json"
         /\ Last(relay'[k].res).error =
              (IF relay[k].timer = "fired" THEN "Request timed out"
               ELSE "Failed to fetch URL")
         /\ Last(relay'[k].res).error \in {"Request timed out", "Failed to fetch URL"}]_vars

C13_Witness ==
  /\ relay[1].pc = "done" /\ relay[1].timer = "fired"
  /\ Last(relay[1].res) = Json("Request timed out")
  /\ relay[2].pc = "done" /\ relay[2].thrown = "TypeError"
  /\ relay[2].upstream # NoUpstream
  /\ Last(relay[2].res) = Json("Failed to fetch URL")

\* C14: a relay call whose url is absent or empty is answered 400 and
\* nothing else: no outbound fetch is issued and no deadline timer is
\* started for it.
C14_MissingUrlRefused ==
  \A k \in Calls :
    (relay[k].pc # "idle" /\ relay[k].url \in {Undefined, ""}) =>
      /\ relay[k].pc = "done"
      /\ Len(relay[k].res) = 2
      /\ relay[k].res[1] = [op |-> "status", code |-> 400]
      /\ relay[k].res[2].op = "json"
      /\ relay[k].fetches = 0
      /\ relay[k].timer = "none"
      /\ ~relay[k].aborted

C14_Witness ==
  /\ relay[1].pc = "done" /\ relay[1].url = Undefined
  /\ relay[2].pc = "done" /\ relay[2].url = ""
  /\ relay[2].res[1].code = 400

\* The values call k has set for header `name` before position i of res.
HeaderBefore(call, name, i) ==
  {call.res[j].value : j \in {j \in 1..(i - 1) :
      call.res[j].op = "setHeader" /\ call.res[j].name = name}}

\* C15: on every successful relay call the three embedding headers are set
\* before the body is written, with the same fixed values whatever framing
\* headers the upstream sent, and the upstream Content-Type is copied when
\* there is one.
C15_EmbedHeadersFirst ==
  \A k \in Calls : \A i \in Written(relay[k], "send") :
    /\ HeaderBefore(relay[k], "Access-Control-Allow-Origin", i) = {"*"}
    /\ HeaderBefore(relay[k], "Content-Security-Policy", i) = {"frame-ancestors *"}
    /\ HeaderBefore(relay[k], "X-Frame-Options", i) = {"ALLOWALL"}
    /\ HeaderBefore(relay[k], "Content-Type", i) =
         (IF "contentType" \in DOMAIN relay[k].upstream
          THEN {relay[k].upstream.contentType} ELSE {})
    /\ Written(relay[k], "setHeader") \subseteq 1..(i - 1)
    /\ Written(relay[k], "status") = {}

C15_Witness ==
  /\ Written(relay[1], "send") # {} /\ Written(relay[2], "send") # {}
  /\ "xFrameOptions" \in DOMAIN relay[1].upstream
  /\ relay[1].upstream.xFrameOptions = "DENY"
  /\ relay[1].upstream.contentType = "text/html"
  /\ "contentType" \notin DOMAIN relay[2].upstream
  /\ relay[2].upstream.xFrameOptions = "SAMEORIGIN"

\* C16: a relay call with a url issues exactly one outbound fetch, whether
\* it is still waiting, has succeeded, has failed or has timed out, and
\* whether or not another call has fetched the same url.
C16_OneFetchPerCall ==
  \A k \in Calls :
    (relay[k].pc # "idle" /\ relay[k].url \notin {Undefined, ""}) =>
      relay[k].fetches = 1

C16_Witness ==
  /\ relay[1].pc = "done" /\ relay[1].thrown = "AbortError"
  /\ relay[2].pc = "done" /\ relay[2].url = relay[1].url
  /\ relay[2].fetches = 1 /\ Written(relay[2], "send") # {}

\* C17: the id of every message the hub has created is drawn by the server,
\* never the id a client put in its payload, and no two messages ever
\* created share an id.
C17_IdsUnique ==
  /\ \A i \in 1..Len(appended) : appended[i].id \in IdSpace
  /\ \A i, j \in 1..Len(appended) :
       i # j => appended[i].id # appended[j].id

\* Field k of the object in frame `data`, and whether it is there.
Has(data, k) == k \in DOMAIN data.fields

C19_MembersOpen == \A c \in clients : readyState[c] = "OPEN"

\* C19, amended: while the hub runs, the members of the connection set are
\* the connections that are Open or Closing: one is a member from its
\* upgrade until its "close" event, so never before the upgrade nor once
\* closed; and only an Open connection is written to.
C19_MembersOpenOrClosing ==
  [][alive' =>
       /\ clients' = {c \in Handles : readyState'[c] \in {"OPEN", "CLOSING"}}
       /\ \A c \in Handles :
            Len(outbox'[c]) > Len(outbox[c]) =>
              /\ readyState'[c] = "OPEN"
              /\ readyState[c] = "OPEN" \/ (ev'.op = "connection" /\ ev'.conn = c)]_vars

C19_Witness ==
  /\ ev.op = "message" /\ ev.conn = 2 /\ Len(appended) = 1
  /\ clients = {1, 2}
  /\ readyState[1] = "CLOSING" /\ Len(outbox[1]) = 1
  /\ readyState[2] = "OPEN" /\ Len(outbox[2]) = 2

\* C20: timestamps are non-decreasing in the order of appending: of any two
\* messages in the history buffer, the later one's timestamp is at least
\* the earlier one's.
C20_TimestampsMonotonic ==
  \A i, j \in 1..Len(messages) :
    i < j => messages[i].timestamp <= messages[j].timestamp

\* C21: the history buffer changes only in the handling of a payload of
\* type "message", and then only by the new message being appended at the
\* tail and, at capacity, the oldest being removed at the head: joins,
\* leaves and unparseable frames leave it as it is, and every message that
\* stays in the buffer stays as it was stored, in its place in the order.
C21_HistoryFrame ==
  [][/\ messages' # messages =>
          /\ ev'.op = "message" /\ IsMessagePayload(ev'.data)
          /\ Len(appended') = Len(appended) + 1
          /\ \/ messages' = Append(messages, Last(appended'))
             \/ /\ Len(messages) = 50
                /\ messages' = Append(Tail(messages), Last(appended'))
     /\ (ev'.op # "message" \/ ~IsMessagePayload(ev'.data)) =>
          messages' = messages /\ appended' = appended]_vars

C21_Witness ==
  /\ Len(appended) = 52 /\ Len(messages) = 50
  /\ Head(messages) = appended[3] /\ Last(messages) = appended[52]
  /\ ev.op = "close" /\ clients = {2}

\* C22: for a connection that is Open, the posts divide at its join: those
\* pushed before it are in its init snapshot (the newest 50 of them), those
\* pushed after it were each broadcast to it once, in order, and the
\* client's message list is the snapshot followed by the later posts.
C22_PostAtomic ==
  \A c \in Handles :
    readyState[c] = "OPEN" =>
      \E j \in 0..Len(appended) :
        /\ IsInit(outbox[c][1])
        /\ outbox[c][1].messages = StringifyAll(LastN(SubSeq(appended, 1, j), 50))
        /\ Broadcasts(c) = StringifyAll(SubSeq(appended, j + 1, Len(appended)))
        /\ Len(outbox[c]) = 1 + Len(appended) - j
        /\ ClientMessages(outbox[c]) =
             StringifyAll(LastN(SubSeq(appended, 1, j), 50))
               \o StringifyAll(SubSeq(appended, j + 1, Len(appended)))

C22_Witness ==
  /\ readyState[1] = "OPEN" /\ readyState[2] = "OPEN"
  /\ Len(appended) = 2 /\ appended[1] # appended[2]
  /\ Len(outbox[1]) = 3 /\ outbox[1][1].messages = <<>>
  /\ Len(outbox[2]) = 2 /\ Len(outbox[2][1].messages) = 1
  /\ ClientMessages(outbox[1]) = ClientMessages(outbox[2])
  /\ Len(ClientMessages(outbox[2])) = 2

\* What a relay call has answered, or will: its position, what it wrote on
\* res, what it caught and what it fetched.
Result(call) == <<call.pc, call.res, call.thrown, call.fetches, call.upstream>>

C24_LoginIffSignedUp ==
  [][/\ reply'.op = "login" =>
          /\ users' = users /\ signups' = signups
          /\ reply'.status = 200 <=>
               <<reply'.username, reply'.password>> \in signups
          /\ reply'.status = 200 =>
               /\ DOMAIN reply'.body = {"success", "username"}
               /\ reply'.body.username = reply'.username
     /\ (reply'.op = "signup"
           /\ \E i \in 1..Len(users) : users[i].username = reply'.username) =>
          /\ reply'.status >= 400
          /\ users' = users /\ signups' = signups
     /\ (reply'.op \in {"signup", "login"}
           /\ (reply'.username \in {Undefined, ""}
                 \/ reply'.password \in {Undefined, ""})) =>
          /\ reply'.status = 400
          /\ users' = users /\ signups' = signups
     /\ (reply'.op = "signup" /\ reply'.status = 200) <=>
          (signups' = signups \cup {<<reply'.username, reply'.password>>}
             /\ signups' # signups)]_vars

C24_Witness ==
  /\ reply.op = "login" /\ reply.status = 200
  /\ reply.username = "bob" /\ reply.password = "q"
  /\ <<"bob", "q">> \in signups /\ <<"bob", "p">> \notin signups
  /\ Len(users) = 2 /\ users[1].username = "alice"

\* C25: the bundled client hands a payload to its socket only when a user is
\* logged in, socketRef holds a socket and the input has a character that is
\* not white space; the payload has type "message", the username that
\* logged in as user and the input, which is not empty, as text; and the
\* input is empty after the send.
C25_ClientSendGuarded ==
  [][ui'.sent # ui.sent =>
       /\ ui.user # Null /\ ui'.user = ui.user
       /\ \E p \in FormPasswords : <<ui.user, p>> \in signups
       /\ ui.socket \notin {Null, "CONNECTING"}
       /\ \E i \in 1..Len(ui.chatInput) : ui.chatInput[i] \notin {" ", "\t", "\n"}
       /\ Len(ui'.sent) = Len(ui.sent) + 1
       /\ SubSeq(ui'.sent, 1, Len(ui.sent)) = ui.sent
       /\ Last(ui'.sent).type = "message"
       /\ Last(ui'.sent).user = ui.user
       /\ Last(ui'.sent).text = ui.chatInput
       /\ Last(ui'.sent).text # <<>>
       /\ ui'.chatInput = <<>>]_vars

C25_Witness ==
  /\ ui.submit = "sent" /\ ui.chatInput = <<>>
  /\ Len(ui.sent) = 2
  /\ ui.sent[1].user = "alice" /\ ui.sent[2].user = "bob"
  /\ ui.sent[2].text = <<" ", "h", "i">>
  /\ ui.user = "bob" /\ ui.socket = "CLOSED"

====
